---- MODULE Spec2Model ----
(***************************************************************************)
(* Model of src/src/index.ts: one run of the came-plus-test process, from   *)
(* the argument list to exit or to a bound listener.  Strings that the     *)
(* code takes apart (argument tokens, port text, bind text) are sequences  *)
(* of one-character strings, so startsWith, split and parseInt are         *)
(* computed the way the code computes them.                                *)
(***************************************************************************)
EXTENDS Integers, Sequences, FiniteSets, TLC

VARIABLES
    args,       \* process.argv.slice(2): a sequence of tokens
    platform,   \* process.platform
    pc,         \* position of the run
    mode,       \* branch of parseArgs that was taken
    exitCode,   \* code passed to process.exit; NotExited while running
    port,       \* module-level `port` (0 until parseArgs returns)
    bind,       \* module-level `bind`
    ipv6,       \* the install branch's !!ipv6Arg
    out,        \* lines printed, as tags, in order
    srv,        \* the throwaway listener of the isPortInUse in flight
    probePort,  \* port argument of the isPortInUse in flight
    probeRes,   \* settlement of the isPortInUse promise in flight
    probeLog,   \* every isPortInUse call that settled: [port, res]
    scanStart,  \* findAvailablePort's startPort (0 when never called)
    scanPort,   \* findAvailablePort's local `port`
    scanI,      \* findAvailablePort's loop counter i
    suggested,  \* suggestedPort (0 until findAvailablePort returned)
    started,    \* number of startServer() invocations
    listener,   \* the HTTP listener created by serve()
    serveErr,   \* code of the 'error' event of serve()'s listener ("none" if none)
    cmds,       \* external commands run and files written, in order
    failures,   \* the entries of cmds that failed
    usingNssm,  \* uninstallWindowsService's usingNssm
    serviceParams, \* installWindowsService's serviceParams
    service,    \* the manager that holds the came-plus-test registration, or "absent"
    history,    \* the earlier runs on this machine: [mode, exitCode] each
    interfaces, \* networkInterfaces() as the listening callback read it
    hostnameStr, \* osHostname() as the listening callback read it
    urls,       \* the URL lines printed, in order: [host, via, note]
    processedUrls, \* the callback's processedUrls (the port is the same in all)
    lookups     \* the dns.promises.reverse calls: [address, state, hostnames]

vars == <<args, platform, pc, mode, exitCode, port, bind, ipv6, out, srv,
          probePort, probeRes, probeLog, scanStart, scanPort, scanI,
          suggested, started, listener, serveErr, cmds, failures, usingNssm,
          serviceParams, service, history, interfaces, hostnameStr, urls,
          processedUrls, lookups>>

----------------------------------------------------------------------------
(* Bounds of the model *)

MaxArgs == 2
MaxPortLen == 2

(* Program constants *)

DefaultPort == 64001
MaxPortNumber == 65535
ScanAttempts == 10
FallbackOffset == 10
CommonAltPort == 8080
NotExited == -1

----------------------------------------------------------------------------
(* Text *)

Digits == <<"0", "1", "2", "3", "4", "5", "6", "7", "8", "9">>

IsDigit(c) == \E i \in 1..10 : Digits[i] = c

DigitVal(c) == (CHOOSE i \in 1..10 : Digits[i] = c) - 1

IsWhiteSpace(c) == c = " "

\* String.prototype.startsWith
startsWith(s, prefix) ==
    /\ Len(s) >= Len(prefix)
    /\ SubSeq(s, 1, Len(prefix)) = prefix

\* Index of the first "=" of s at or after position from; Len(s)+1 if none
RECURSIVE IndexOfEq(_, _)
IndexOfEq(s, from) ==
    IF from > Len(s) THEN Len(s) + 1
    ELSE IF s[from] = "=" THEN from
    ELSE IndexOfEq(s, from + 1)

\* s.split('=')[1] for an s that holds an "=": the text between the first
\* "=" and the next one (or the end)
SplitEq1(s) ==
    LET a == IndexOfEq(s, 1)
        b == IndexOfEq(s, a + 1)
    IN  SubSeq(s, a + 1, b - 1)

RECURSIVE TrimStart(_)
TrimStart(s) ==
    IF s # <<>> /\ IsWhiteSpace(s[1]) THEN TrimStart(Tail(s)) ELSE s

RECURSIVE DigitPrefix(_)
DigitPrefix(s) ==
    IF s # <<>> /\ IsDigit(s[1]) THEN <<s[1]>> \o DigitPrefix(Tail(s)) ELSE <<>>

RECURSIVE DecVal(_)
DecVal(d) ==
    IF d = <<>> THEN 0
    ELSE 10 * DecVal(SubSeq(d, 1, Len(d) - 1)) + DigitVal(d[Len(d)])

NaN == [nan |-> TRUE, val |-> 0]

\* parseInt(s, 10): leading white space, an optional sign, then the longest
\* run of decimal digits; NaN when that run is empty
parseInt(s) ==
    LET t == TrimStart(s)
        signed == t # <<>> /\ t[1] \in {"+", "-"}
        sign == IF t # <<>> /\ t[1] = "-" THEN -1 ELSE 1
        d == DigitPrefix(IF signed THEN Tail(t) ELSE t)
    IN  IF d = <<>> THEN NaN ELSE [nan |-> FALSE, val |-> sign * DecVal(d)]

----------------------------------------------------------------------------
(* Tokens *)

TokHelp == <<"-", "-", "h", "e", "l", "p">>
TokH == <<"-", "h">>
TokVersion == <<"-", "-", "v", "e", "r", "s", "i", "o", "n">>
TokV == <<"-", "v">>
TokUninstall == <<"u", "n", "i", "n", "s", "t", "a", "l", "l">>
TokInstall == <<"i", "n", "s", "t", "a", "l", "l">>
TokIpv6 == <<"-", "-", "i", "p", "v", "6">>
PortPrefix == <<"-", "-", "p", "o", "r", "t", "=">>
BindPrefix == <<"-", "-", "b", "i", "n", "d", "=">>

BindAny4 == <<"0", ".", "0", ".", "0", ".", "0">>
BindAny6 == <<":", ":">>

\* Array.prototype.includes
includes(a, tok) == \E i \in 1..Len(a) : a[i] = tok

\* Array.prototype.find(arg => arg.startsWith(prefix)): <<the token>>, or
\* <<>> for undefined
findPrefix(a, prefix) ==
    LET hits == {i \in 1..Len(a) : startsWith(a[i], prefix)}
    IN  IF hits = {} THEN <<>>
        ELSE <<a[CHOOSE i \in hits : \A j \in hits : i <= j]>>

----------------------------------------------------------------------------
(* parseArgs *)

\* isNaN(port) || port < 1 || port > 65535
PortInvalid(p) == p.nan \/ p.val < 1 \/ p.val > MaxPortNumber

\* portArg ? parseInt(portArg.split('=')[1], 10) : 64001
ParsedPort(a) ==
    LET portArg == findPrefix(a, PortPrefix)
    IN  IF portArg # <<>> THEN parseInt(SplitEq1(portArg[1]))
        ELSE [nan |-> FALSE, val |-> DefaultPort]

\* bindArg ? bindArg.split('=')[1] : (ipv6Arg ? '::' : '0.0.0.0')
ParsedBind(a) ==
    LET bindArg == findPrefix(a, BindPrefix)
        ipv6Arg == includes(a, TokIpv6)
    IN  IF bindArg # <<>> THEN SplitEq1(bindArg[1])
        ELSE IF ipv6Arg THEN BindAny6 ELSE BindAny4

\* A plausible slip: install is tested before uninstall
CommandInstallFirst(a) ==
    IF includes(a, TokHelp) \/ includes(a, TokH) THEN "help"
    ELSE IF includes(a, TokVersion) \/ includes(a, TokV) THEN "version"
    ELSE IF includes(a, TokInstall) THEN "install"
    ELSE IF includes(a, TokUninstall) THEN "uninstall"
    ELSE "run"

\* The chain of `if (args.includes(...))` tests at the head of parseArgs
Command(a) ==
    IF includes(a, TokHelp) \/ includes(a, TokH) THEN "help"
    ELSE IF includes(a, TokVersion) \/ includes(a, TokV) THEN "version"
    ELSE IF includes(a, TokUninstall) THEN "uninstall"
    ELSE IF includes(a, TokInstall) THEN "install"
    ELSE "run"

envVars == <<args, platform>>
cfgVars == <<port, bind, ipv6>>
probeVars == <<srv, probePort, probeRes, probeLog>>
scanVars == <<scanStart, scanPort, scanI, suggested>>
httpVars == <<started, listener, serveErr>>
svcVars == <<cmds, failures, usingNssm, serviceParams>>
osVars == <<service, history>>
repVars == <<interfaces, hostnameStr, urls, processedUrls, lookups>>

\* process.exit(code)
Exit(code) ==
    /\ pc' = "exited"
    /\ exitCode' = code

\* throw new Error('Port must be ...') in parseArgs, caught by the
\* top-level try/catch: console.error, process.exit(1)
PortErrorExit ==
    /\ out' = Append(out, "Error: Port must be a valid number between 1 and 65535.")
    /\ Exit(1)
    /\ UNCHANGED <<cfgVars, probeVars>>

HelpBranch ==
    /\ mode' = "help"
    /\ out' = Append(out, "usage")
    /\ Exit(0)
    /\ UNCHANGED <<cfgVars, probeVars>>

VersionBranch ==
    /\ mode' = "version"
    /\ out' = Append(out, "name vVersion")
    /\ Exit(0)
    /\ UNCHANGED <<cfgVars, probeVars>>

UninstallBranch ==
    /\ mode' = "uninstall"
    /\ pc' = "uninstallService"
    /\ UNCHANGED <<exitCode, out, cfgVars, probeVars>>

\* A plausible slip: the install branch calls installService before it
\* validates the port
InstallBranchNoCheck ==
    /\ mode' = "install"
    /\ port' = ParsedPort(args).val
    /\ bind' = ParsedBind(args)
    /\ ipv6' = includes(args, TokIpv6)
    /\ pc' = "installService"
    /\ UNCHANGED <<exitCode, out, probeVars>>

InstallBranch ==
    /\ mode' = "install"
    /\ IF PortInvalid(ParsedPort(args))
       THEN PortErrorExit
       ELSE /\ port' = ParsedPort(args).val
            /\ bind' = ParsedBind(args)
            /\ ipv6' = includes(args, TokIpv6)
            /\ pc' = "installService"
            /\ UNCHANGED <<exitCode, out, probeVars>>

\* Plain run: parseArgs returns {port, bind}; the module then calls
\* isPortInUse(port, bind)
RunBranch ==
    /\ mode' = "run"
    /\ IF PortInvalid(ParsedPort(args))
       THEN PortErrorExit
       ELSE /\ port' = ParsedPort(args).val
            /\ bind' = ParsedBind(args)
            /\ pc' = "probe"
            /\ probePort' = ParsedPort(args).val
            /\ srv' = "created"
            /\ UNCHANGED <<exitCode, out, ipv6, probeRes, probeLog>>

ParseArgs ==
    /\ pc = "parse"
    /\ CASE Command(args) = "help" -> HelpBranch
         [] Command(args) = "version" -> VersionBranch
         [] Command(args) = "uninstall" -> UninstallBranch
         [] Command(args) = "install" -> InstallBranch
         [] OTHER -> RunBranch
    /\ UNCHANGED <<envVars, repVars, osVars, scanVars, httpVars, svcVars>>

----------------------------------------------------------------------------
(* isPortInUse *)

ListenErrors == {"EADDRINUSE", "EACCES", "EADDRNOTAVAIL"}

\* server.listen(port, hostname) throws ERR_SOCKET_BAD_PORT, inside the
\* Promise executor, for a port outside 0..65535
ListenThrows(p) == p < 0 \/ p > MaxPortNumber

\* A plausible slip: every bind error counts as "in use"
ResolveOnErrorAny(code) == "true"

\* server.once('error', ...): resolve(true) on EADDRINUSE, else resolve(false)
ResolveOnError(code) == IF code = "EADDRINUSE" THEN "true" ELSE "false"

Settle(res) ==
    /\ probeRes' = res
    /\ probeLog' = Append(probeLog, [port |-> probePort, res |-> res])

\* The call isPortInUse(p, host): createServer() and server.listen(p, host)
CallIsPortInUse(p) ==
    /\ probePort' = p
    /\ srv' = "created"
    /\ probeRes' = "pending"
    /\ UNCHANGED probeLog

\* The outcome of server.listen: a synchronous throw (the promise rejects),
\* an 'error' event, or the 'listening' event, whose handler calls
\* server.close(cb)
IsPortInUseListen ==
    /\ pc \in {"probe", "scan"}
    /\ srv = "created"
    /\ IF ListenThrows(probePort)
       THEN /\ srv' = "threw"
            /\ Settle("rejected")
       ELSE \E e \in ListenErrors \cup {"listening"} :
              /\ srv' = e
              /\ IF e = "listening"
                 THEN UNCHANGED <<probeRes, probeLog>>
                 ELSE Settle(ResolveOnError(e))
    /\ UNCHANGED <<envVars, repVars, osVars, pc, mode, exitCode, cfgVars, out, probePort,
                   scanVars, httpVars, svcVars>>

\* The callback of server.close: the listener is released, resolve(false)
IsPortInUseClose ==
    /\ pc \in {"probe", "scan"}
    /\ srv = "listening"
    /\ srv' = "closed"
    /\ Settle("false")
    /\ UNCHANGED <<envVars, repVars, osVars, pc, mode, exitCode, cfgVars, out, probePort,
                   scanVars, httpVars, svcVars>>

----------------------------------------------------------------------------
(* findProcessUsingPort, findAvailablePort and the port-in-use branch *)

\* findProcessUsingPort: the commands it runs; it never throws.  tasklist
\* runs only when netstat gave a PID.
ProcessLookups ==
    IF platform = "win32" THEN {<<"netstat">>, <<"netstat", "tasklist">>}
    ELSE IF platform \in {"linux", "darwin"} THEN {<<"lsof">>}
    ELSE {<<>>}

\* A plausible slip: the fallback the comment announces, taken when the
\* scan began at the default port
FallbackAtDefault(p, startPort) ==
    IF startPort = DefaultPort THEN CommonAltPort ELSE startPort + FallbackOffset

\* return port === startPort ? 8080 : startPort + 10
Fallback(p, startPort) ==
    IF p = startPort THEN CommonAltPort ELSE startPort + FallbackOffset

\* A plausible slip: the search starts at the occupied port itself
ScanFromSame(p) == p

\* The start of the search: findAvailablePort(port + 1, bind)
ScanFrom(p) == p + 1

\* startServer() is called
CallStartServer ==
    /\ pc' = "startServer"
    /\ started' = started + 1
    /\ UNCHANGED <<exitCode, listener, serveErr>>

\* findAvailablePort returned r: the option lines are printed with it as
\* suggestedPort, then process.exit(1)
SuggestAndExit(r) ==
    /\ suggested' = r
    /\ out' = Append(out, "suggest")
    /\ Exit(1)
    /\ UNCHANGED <<httpVars, probeVars>>

\* isPortInUse(port, bind).then(async (inUse) => ...).catch(...), up to the
\* first await inside findAvailablePort(port + 1, bind)
ThenProbe ==
    /\ pc = "probe"
    /\ probeRes # "pending"
    /\ CASE probeRes = "true" ->
              /\ \E c \in ProcessLookups : cmds' = cmds \o c
              /\ out' = Append(out, "Error: Port is already in use")
              /\ scanStart' = ScanFrom(port)
              /\ scanPort' = ScanFrom(port)
              /\ scanI' = 0
              /\ CallIsPortInUse(ScanFrom(port))
              /\ pc' = "scan"
              /\ UNCHANGED <<exitCode, suggested, httpVars>>
         [] OTHER ->
              \* inUse false: startServer(); rejected: .catch, startServer()
              /\ CallStartServer
              /\ UNCHANGED <<out, cmds, scanVars, probeVars>>
    /\ UNCHANGED <<envVars, repVars, osVars, mode, cfgVars, failures, usingNssm, serviceParams>>

\* findAvailablePort resumes after `await isPortInUse(port, hostname)`
FindAvailablePortStep ==
    /\ pc = "scan"
    /\ probeRes # "pending"
    /\ CASE probeRes = "false" ->
              /\ SuggestAndExit(scanPort)
              /\ UNCHANGED <<scanStart, scanPort, scanI>>
         [] probeRes = "true" /\ scanI + 1 < ScanAttempts ->
              /\ scanPort' = scanPort + 1
              /\ scanI' = scanI + 1
              /\ CallIsPortInUse(scanPort + 1)
              /\ UNCHANGED <<pc, exitCode, out, scanStart, suggested, httpVars>>
         [] probeRes = "true" /\ scanI + 1 >= ScanAttempts ->
              /\ scanPort' = scanPort + 1
              /\ scanI' = scanI + 1
              /\ SuggestAndExit(Fallback(scanPort + 1, scanStart))
              /\ UNCHANGED scanStart
         [] OTHER ->
              \* the await throws, the async callback rejects, and the
              \* .catch handler calls startServer()
              /\ CallStartServer
              /\ UNCHANGED <<out, scanVars, probeVars>>
    /\ UNCHANGED <<envVars, repVars, osVars, mode, cfgVars, svcVars>>

----------------------------------------------------------------------------
(* startServer *)

HandlerRethrowExit == 7

\* A plausible slip: the handler treats every uncaught error as handled
HandlesErrorAll(code) == TRUE

\* process.on('uncaughtException', ...): EADDRINUSE goes to errorHandler,
\* every other error is thrown again
HandlesError(code) == code = "EADDRINUSE"

\* serve({fetch, port, hostname: bind}, callback): the listener is bound
\* (pc "serving": the listening callback, which prints the URLs, runs next), or
\* its 'error' event has no listener and reaches the uncaughtException
\* handler, which handles EADDRINUSE and rethrows the rest
StartServer ==
    /\ pc = "startServer"
    /\ \E e \in ListenErrors \cup {"listening"} :
         CASE e = "listening" ->
                /\ listener' = "listening"
                /\ pc' = "serving"
                /\ UNCHANGED <<exitCode, out, serveErr>>
           [] e # "listening" /\ HandlesError(e) ->
                \* errorHandler: the message for EADDRINUSE, or the
                \* generic one, then process.exit(1)
                /\ serveErr' = e
                /\ out' = Append(out, IF e = "EADDRINUSE"
                                      THEN "Error: Port is already in use (bind)"
                                      ELSE "Server error")
                /\ Exit(1)
                /\ UNCHANGED listener
           [] OTHER ->
                /\ serveErr' = e
                /\ Exit(HandlerRethrowExit)
                /\ UNCHANGED <<out, listener>>
    /\ UNCHANGED <<envVars, repVars, osVars, mode, cfgVars, probeVars, scanVars, started, svcVars>>

----------------------------------------------------------------------------
(* installService, installWindowsService *)

\* The try block that begins with `where nssm`
NssmInstallCmds ==
    <<"where nssm", "nssm install", "nssm set AppParameters",
      "nssm set DisplayName", "nssm set Description",
      "nssm set AppDirectory", "nssm set Start", "nssm start">>

\* The catch block of that try: mkdirSync, the two writeFileSync calls and
\* the sc commands
ScInstallCmds ==
    <<"mkdir", "write service_wrapper.vbs", "write start_service.bat",
      "sc create", "sc description", "sc config", "sc failure", "sc start">>

Range(f) == {f[i] : i \in DOMAIN f}

IndexIn(chain, c) == CHOOSE i \in DOMAIN chain : chain[i] = c

\* A command ran: it is logged, and logged as failed when it failed
Ran(c, ok) ==
    /\ cmds' = Append(cmds, c)
    /\ failures' = IF ok THEN failures ELSE Append(failures, c)

\* `${port}`: the decimal digits of a non-negative integer
RECURSIVE ToDecimal(_)
ToDecimal(n) ==
    IF n < 10 THEN <<Digits[n + 1]>>
    ELSE ToDecimal(n \div 10) \o <<Digits[(n % 10) + 1]>>

\* serviceParams of installWindowsService: the flags appended to the script
\* path in the service's command line
ServiceParams(p, b, v6) ==
    (IF p # DefaultPort THEN <<" ">> \o PortPrefix \o ToDecimal(p) ELSE <<>>)
    \o (IF b # BindAny4 THEN <<" ">> \o BindPrefix \o b ELSE <<>>)
    \o (IF v6 THEN <<" ">> \o TokIpv6 ELSE <<>>)

\* switch (process.platform) in installService; parseArgs calls
\* process.exit(0) when installService returns
InstallService ==
    /\ pc = "installService"
    /\ CASE platform = "win32" ->
              /\ out' = Append(out, "Installing as a Windows service")
              /\ pc' = "net session"
              /\ UNCHANGED exitCode
         [] platform = "linux" ->
              /\ out' = Append(out, "Linux service installation not yet implemented")
              /\ Exit(0)
         [] platform = "darwin" ->
              /\ out' = Append(out, "macOS service installation not yet implemented")
              /\ Exit(0)
         [] OTHER ->
              /\ out' = Append(out, "Service installation not supported")
              /\ Exit(1)
    /\ UNCHANGED <<envVars, repVars, osVars, mode, cfgVars, probeVars, scanVars, httpVars, svcVars>>

\* execSync('net session'): the privilege check
InstallNetSession ==
    /\ mode = "install"
    /\ pc = "net session"
    /\ \E ok \in BOOLEAN :
         /\ Ran("net session", ok)
         /\ IF ok
            THEN /\ serviceParams' = ServiceParams(port, bind, ipv6)
                 /\ pc' = NssmInstallCmds[1]
                 /\ UNCHANGED <<exitCode, out>>
            ELSE /\ out' = Append(out, "Error: Administrator privileges are required")
                 /\ Exit(1)
                 /\ UNCHANGED serviceParams
    /\ UNCHANGED <<envVars, repVars, osVars, mode, cfgVars, probeVars, scanVars, httpVars, usingNssm>>

\* One execSync of the NSSM try block.  Its catch does not tell `where nssm`
\* from the nssm commands: whichever throws, control goes to the sc path.
InstallNssm ==
    /\ mode = "install"
    /\ pc \in Range(NssmInstallCmds)
    /\ \E ok \in BOOLEAN :
         /\ Ran(pc, ok)
         \* a name that is already registered cannot be registered again
         /\ (pc = "nssm install" /\ service # "absent") => ~ok
         /\ service' = IF pc = "nssm install" /\ ok THEN "nssm" ELSE service
         /\ IF ok
            THEN IF IndexIn(NssmInstallCmds, pc) < Len(NssmInstallCmds)
                 THEN /\ pc' = NssmInstallCmds[IndexIn(NssmInstallCmds, pc) + 1]
                      /\ UNCHANGED <<exitCode, out>>
                 ELSE /\ out' = Append(out, "Service started successfully.")
                      /\ Exit(0)
            ELSE /\ out' = Append(out, "NSSM is not found. Installing service using Windows SC command")
                 /\ pc' = ScInstallCmds[1]
                 /\ UNCHANGED exitCode
    /\ UNCHANGED <<envVars, repVars, history, mode, cfgVars, probeVars, scanVars, httpVars, usingNssm, serviceParams>>

\* One step of the sc path.  mkdirSync throws to the outer catch, the file
\* writes and sc create/description/config/failure to the inner catch (both
\* exit 1); a failing `sc start` is only warned about.
InstallSc ==
    /\ mode = "install"
    /\ pc \in Range(ScInstallCmds)
    /\ \E ok \in BOOLEAN :
         /\ Ran(pc, ok)
         \* a name that is already registered cannot be registered again
         /\ (pc = "sc create" /\ service # "absent") => ~ok
         /\ service' = IF pc = "sc create" /\ ok THEN "sc" ELSE service
         /\ IF ok
            THEN IF IndexIn(ScInstallCmds, pc) < Len(ScInstallCmds)
                 THEN /\ pc' = ScInstallCmds[IndexIn(ScInstallCmds, pc) + 1]
                      /\ UNCHANGED <<exitCode, out>>
                 ELSE /\ out' = Append(out, "Service started successfully.")
                      /\ Exit(0)
            ELSE IF pc = "sc start"
                 THEN /\ out' = Append(out, "Warning: Service created but could not be started automatically.")
                      /\ Exit(0)
                 ELSE IF pc = "mkdir"
                 THEN /\ out' = Append(out, "Failed to install Windows service")
                      /\ Exit(1)
                 ELSE /\ out' = Append(out, "Error creating service files")
                      /\ Exit(1)
    /\ UNCHANGED <<envVars, repVars, history, mode, cfgVars, probeVars, scanVars, httpVars, usingNssm, serviceParams>>

----------------------------------------------------------------------------
(* uninstallService, uninstallWindowsService *)

\* switch (process.platform) in uninstallService; parseArgs calls
\* process.exit(0) when uninstallService returns
UninstallService ==
    /\ pc = "uninstallService"
    /\ CASE platform = "win32" ->
              /\ out' = Append(out, "Uninstalling Windows service")
              /\ pc' = "un: net session"
              /\ UNCHANGED exitCode
         [] platform = "linux" ->
              /\ out' = Append(out, "Linux service uninstallation not yet implemented")
              /\ Exit(0)
         [] platform = "darwin" ->
              /\ out' = Append(out, "macOS service uninstallation not yet implemented")
              /\ Exit(0)
         [] OTHER ->
              /\ out' = Append(out, "Service uninstallation not supported")
              /\ Exit(1)
    /\ UNCHANGED <<envVars, repVars, osVars, mode, cfgVars, probeVars, scanVars, httpVars, svcVars>>

\* net session, then sc query: either failing exits 1
UninstallCheck ==
    /\ pc \in {"un: net session", "un: sc query"}
    /\ \E ok \in BOOLEAN :
         \* sc query fails for a service that does not exist
         /\ (pc = "un: sc query" /\ service = "absent") => ~ok
         /\ Ran(IF pc = "un: net session" THEN "net session" ELSE "sc query", ok)
         /\ IF ok
            THEN /\ pc' = IF pc = "un: net session" THEN "un: sc query" ELSE "un: where nssm"
                 /\ UNCHANGED <<exitCode, out>>
            ELSE /\ out' = Append(out, IF pc = "un: net session"
                                       THEN "Error: Administrator privileges are required"
                                       ELSE "Error: Service is not installed.")
                 /\ Exit(1)
    /\ UNCHANGED <<envVars, repVars, osVars, mode, cfgVars, probeVars, scanVars, httpVars, usingNssm, serviceParams>>

\* usingNssm is whether `where nssm` succeeds now
UninstallWhereNssm ==
    /\ pc = "un: where nssm"
    /\ \E ok \in BOOLEAN :
         /\ Ran("where nssm", ok)
         /\ usingNssm' = ok
    /\ pc' = "un: stop"
    /\ out' = Append(out, "Stopping the service")
    /\ UNCHANGED <<envVars, repVars, osVars, mode, exitCode, cfgVars, probeVars, scanVars, httpVars, serviceParams>>

\* nssm stop / sc stop: a failure is taken as "already stopped"
UninstallStop ==
    /\ pc = "un: stop"
    /\ \E ok \in BOOLEAN :
         /\ Ran(IF usingNssm THEN "nssm stop" ELSE "sc stop", ok)
         /\ out' = IF ok THEN out ELSE Append(out, "Service was not running.")
    /\ pc' = "un: remove"
    /\ UNCHANGED <<envVars, repVars, osVars, mode, exitCode, cfgVars, probeVars, scanVars, httpVars, usingNssm, serviceParams>>

\* nssm remove / sc delete: a failure goes to the outer catch (exit 1)
UninstallRemove ==
    /\ pc = "un: remove"
    /\ \E ok \in BOOLEAN :
         /\ Ran(IF usingNssm THEN "nssm remove" ELSE "sc delete", ok)
         /\ service' = IF ok THEN "absent" ELSE service
         /\ IF ok
            THEN /\ out' = Append(out, "Service successfully uninstalled.")
                 /\ Exit(0)
            ELSE /\ out' = Append(out, "Failed to uninstall Windows service")
                 /\ Exit(1)
    /\ UNCHANGED <<envVars, repVars, history, mode, cfgVars, probeVars, scanVars, httpVars, usingNssm, serviceParams>>

----------------------------------------------------------------------------
(* Runs *)

Platforms == {"win32", "linux", "darwin", "freebsd"}

Text(prefix, texts) == {prefix \o t : t \in texts}

\* Port texts of the runs: the top of the range, a port whose scan crosses
\* the top, the port below the default, and an invalid one
RunPortTexts ==
    { <<"6", "5", "5", "3", "5">>, <<"6", "5", "5", "3", "0">>,
      <<"6", "4", "0", "0", "0">>, <<"0">> }

RunBindTexts == { <<"1", "2", "7", ".", "0", ".", "0", ".", "1">> }

RunTokens ==
    {TokHelp, TokH, TokVersion, TokV, TokUninstall, TokInstall, TokIpv6}
        \cup Text(PortPrefix, RunPortTexts) \cup Text(BindPrefix, RunBindTexts)

SeqsUpTo(S, n) == UNION {[1..k -> S] : k \in 0..n}

\* The state when parseArgs is called: the version line has been printed
\* What the Windows service managers hold for the name came-plus-test before
\* the run: nothing, an NSSM-managed service, or one made by sc create
Services == {"absent", "nssm", "sc"}

InitRun ==
    /\ platform \in Platforms
    /\ pc = "parse"
    /\ mode = "none"
    /\ exitCode = NotExited
    /\ port = 0
    /\ bind = <<>>
    /\ ipv6 = FALSE
    /\ out = <<"CAME+test version">>
    /\ srv = "none"
    /\ probePort = 0
    /\ probeRes = "pending"
    /\ probeLog = <<>>
    /\ scanStart = 0
    /\ scanPort = 0
    /\ scanI = 0
    /\ suggested = 0
    /\ started = 0
    /\ listener = "none"
    /\ serveErr = "none"
    /\ cmds = <<>>
    /\ failures = <<>>
    /\ usingNssm = FALSE
    /\ serviceParams = <<>>
    /\ service \in (IF platform = "win32" THEN Services ELSE {"absent"})
    /\ history = <<>>
    /\ interfaces = <<>>
    /\ hostnameStr = <<>>
    /\ urls = <<>>
    /\ processedUrls = {}
    /\ lookups = <<>>

Init ==
    /\ args \in SeqsUpTo(RunTokens, MaxArgs)
    /\ InitRun

\* The runs up to the bound listener (pc "serving"); the listening callback
\* and the reverse lookups are the further actions of SpecReport
Next ==
    \/ ParseArgs
    \/ IsPortInUseListen
    \/ IsPortInUseClose
    \/ ThenProbe
    \/ FindAvailablePortStep
    \/ StartServer
    \/ InstallService
    \/ InstallNetSession
    \/ InstallNssm
    \/ InstallSc
    \/ UninstallService
    \/ UninstallCheck
    \/ UninstallWhereNssm
    \/ UninstallStop
    \/ UninstallRemove

Spec == Init /\ [][Next]_vars

----------------------------------------------------------------------------
(* Sequences of install and uninstall runs on one Windows machine *)

MaxRuns == 2

ServicePortTexts == {<<"8", "0", "8", "0">>, <<"6", "4", "0", "0", "1">>}

ServiceBindTexts == {BindAny4, <<":", ":", "1">>}

\* install with any of --port, --bind and --ipv6; uninstall
ServiceArgs ==
    {<<TokUninstall>>} \cup
    {<<TokInstall>> \o p \o b \o v :
        p \in {<<>>} \cup {<<PortPrefix \o t>> : t \in ServicePortTexts},
        b \in {<<>>} \cup {<<BindPrefix \o t>> : t \in ServiceBindTexts},
        v \in {<<>>, <<TokIpv6>>}}

InitService ==
    /\ args \in ServiceArgs
    /\ InitRun
    /\ platform = "win32"
    /\ service = "absent"

\* The process has exited and the program is run again: a new process, with
\* the service registration as the last run left it
NewRun ==
    /\ pc = "exited"
    /\ Len(history) + 1 < MaxRuns
    /\ history' = Append(history, [mode |-> mode, exitCode |-> exitCode])
    /\ args' \in ServiceArgs
    /\ pc' = "parse"
    /\ mode' = "none"
    /\ exitCode' = NotExited
    /\ port' = 0
    /\ bind' = <<>>
    /\ ipv6' = FALSE
    /\ out' = <<"CAME+test version">>
    /\ cmds' = <<>>
    /\ failures' = <<>>
    /\ usingNssm' = FALSE
    /\ serviceParams' = <<>>
    /\ UNCHANGED <<platform, service, probeVars, scanVars, httpVars, repVars>>

NextService ==
    \/ ParseArgs
    \/ InstallService
    \/ InstallNetSession
    \/ InstallNssm
    \/ InstallSc
    \/ UninstallService
    \/ UninstallCheck
    \/ UninstallWhereNssm
    \/ UninstallStop
    \/ UninstallRemove
    \/ NewRun

SpecService == InitService /\ [][NextService]_vars

----------------------------------------------------------------------------
(* The listening callback of serve(): the startup report *)

MaxIfaces == 2

Localhost == <<"l", "o", "c", "a", "l", "h", "o", "s", "t">>
Loopback4 == <<"1", "2", "7", ".", "0", ".", "0", ".", "1">>
Loopback6 == <<":", ":", "1">>
LanAddress4 == <<"1", "0", ".", "0", ".", "0", ".", "1">>
LinkLocal6 == <<"f", "e", "8", "0", ":", ":", "1">>
Mapped6 ==
    <<":", ":", "f", "f", "f", "f", ":", "1", "2", "7", ".", "0", ".", "0", ".", "1">>
HostA == <<"h", "o", "s", "t", "a">>
HostB == <<"h", "o", "s", "t", "b">>

\* isIPv6Enabled(): some entry of networkInterfaces() has family 'IPv6'
isIPv6Enabled(ifs) == \E i \in 1..Len(ifs) : ifs[i].family = "IPv6"

\* /^(?:[0-9]{1,3}\.){3}[0-9]{1,3}$/.test(address)
isIPv4Address(address) ==
    LET dots == {i \in 1..Len(address) : address[i] = "."}
        cuts == {0, Len(address) + 1} \cup dots
    IN  /\ Cardinality(dots) = 3
        /\ \A i \in (1..Len(address)) \ dots : IsDigit(address[i])
        /\ \A c \in cuts \ {Len(address) + 1} :
             LET nxt == CHOOSE d \in cuts :
                            d > c /\ \A e \in cuts : e > c => d <= e
             IN  nxt - c - 1 \in 1..3

shouldShowIPv6(bindAddress, ipv6Enabled) ==
    IF ~ipv6Enabled THEN FALSE
    ELSE IF bindAddress = BindAny4 THEN FALSE
    ELSE IF isIPv4Address(bindAddress) THEN FALSE
    ELSE TRUE

isSpecialIPv6(address) ==
    \/ address = Loopback6
    \/ address = BindAny6
    \/ startsWith(address, <<"f", "e", "8", "0", ":">>)
    \/ startsWith(address, <<"f", "c", "0", "0", ":">>)
    \/ startsWith(address, <<"f", "d", "0", "0", ":">>)

\* A printed line `http://<host>:<port><note>`; via tells the synchronous
\* part of the callback from a .then callback of a reverse lookup
Line(h, v, n) == [host |-> h, via |-> v, note |-> n]

Bracket(address) == <<"[">> \o address \o <<"]">>

\* The lines the forEach body prints for one entry of networkInterfaces()
IfaceLines(iface, showIPv6) ==
    IF iface.internal THEN <<>>
    ELSE IF iface.family = "IPv4" THEN <<Line(iface.address, "sync", "")>>
    ELSE IF iface.family = "IPv6" /\ showIPv6 THEN
        <<Line(Bracket(iface.address), "sync", "")>>
        \o (IF ~isSpecialIPv6(iface.address) THEN <<>>
            ELSE IF iface.address = Loopback6
                 THEN <<Line(Localhost, "sync", "(IPv6)")>>
            ELSE IF startsWith(iface.address, <<"f", "e", "8", "0", ":">>)
                    /\ iface.scopeid # <<>>
                 THEN <<Line(Bracket(iface.address \o <<"%">> \o iface.scopeid),
                             "sync", "(link-local)")>>
            ELSE <<>>)
    ELSE <<>>

\* The entries for which the forEach body calls dns.promises.reverse
IfaceLooksUp(iface, showIPv6) ==
    /\ ~iface.internal
    /\ iface.family = "IPv4" \/ (iface.family = "IPv6" /\ showIPv6)

RECURSIVE AllIfaceLines(_, _)
AllIfaceLines(ifs, showIPv6) ==
    IF ifs = <<>> THEN <<>>
    ELSE IfaceLines(Head(ifs), showIPv6) \o AllIfaceLines(Tail(ifs), showIPv6)

Pending(address) == [address |-> address, state |-> "pending", hostnames |-> <<>>]

AllIfaceLookups(ifs, showIPv6) ==
    LET LooksUp(iface) == IfaceLooksUp(iface, showIPv6)
        sel == SelectSeq(ifs, LooksUp)
    IN  [i \in 1..Len(sel) |-> Pending(sel[i].address)]

\* The keys put into processedUrls: the lines with a note are printed
\* without being added
Added(lines) == {lines[i].host : i \in {j \in 1..Len(lines) : lines[j].note = ""}}

\* if (hostnameStr && !processedUrls.has(...)) console.log(...)
HostnameLine(h, processed) ==
    IF h # <<>> /\ h \notin processed THEN <<Line(h, "sync", "")>> ELSE <<>>

\* The callback returns: the banner is printed and the lookups are in flight
Report(lines, processed, lks) ==
    /\ urls' = lines
    /\ processedUrls' = processed
    /\ lookups' = lks
    /\ pc' = "reported"
    /\ UNCHANGED <<exitCode, out>>

\* console.error(...); process.exit(1) inside the callback
ReportExit(lines, processed, msg) ==
    /\ urls' = lines
    /\ processedUrls' = processed
    /\ lookups' = <<>>
    /\ out' = Append(out, msg)
    /\ Exit(1)

\* if (bind === '0.0.0.0' || bind === '::') { ... }
ReportAllInterfaces(ifs, h) ==
    LET ipv6Enabled == isIPv6Enabled(ifs)
        showIPv6 == shouldShowIPv6(bind, ipv6Enabled)
        lines == <<Line(Localhost, "sync", "")>>
                 \o (IF showIPv6 THEN <<Line(Bracket(Loopback6), "sync", "")>> ELSE <<>>)
                 \o AllIfaceLines(ifs, showIPv6)
    IN  IF bind = BindAny6 /\ ~ipv6Enabled
        THEN ReportExit(<<>>, {}, "Error: Cannot bind to IPv6 unspecified address (::)")
        ELSE Report(lines \o HostnameLine(h, Added(lines)),
                    Added(lines \o HostnameLine(h, Added(lines))),
                    AllIfaceLookups(ifs, showIPv6))

\* else if (bind === '127.0.0.1') { ... } else if (bind === '::1') { ... }
ReportLoopback(ifs) ==
    IF bind = Loopback4
    THEN Report(<<Line(bind, "sync", ""), Line(Localhost, "sync", "")>>, {}, <<>>)
    ELSE IF ~isIPv6Enabled(ifs)
    THEN ReportExit(<<>>, {}, "Error: Cannot bind to IPv6 localhost (::1)")
    ELSE Report(<<Line(Bracket(bind), "sync", ""), Line(Localhost, "sync", "(IPv6)")>>,
                {}, <<>>)

\* else { ... }: a specific address.  info.address is the address of the
\* listener, which for a literal bind address is that address.
ReportSpecific(ifs, h) ==
    LET first == <<Line(bind, "sync", "")>>
        second == IF ~isIPv4Address(bind) /\ (\E i \in 1..Len(bind) : bind[i] = ":")
                  THEN <<Line(Bracket(bind), "sync", "")>>
                  ELSE <<>>
        lines == first \o second
    IN  IF second # <<>> /\ ~isIPv6Enabled(ifs)
        THEN ReportExit(first, Added(first),
                        "Error: Cannot bind to IPv6 address because IPv6 is not enabled")
        ELSE Report(lines \o HostnameLine(h, Added(lines)),
                    Added(lines \o HostnameLine(h, Added(lines))),
                    <<Pending(bind)>>)

\* What networkInterfaces() can hold: a LAN card with an IPv4 address, the
\* IPv4 loopback, a card with a link-local IPv6 address, the IPv6 loopback
InterfaceEntries ==
    {[address |-> LanAddress4, family |-> "IPv4", internal |-> FALSE, scopeid |-> <<>>],
     [address |-> Loopback4, family |-> "IPv4", internal |-> TRUE, scopeid |-> <<>>],
     [address |-> LinkLocal6, family |-> "IPv6", internal |-> FALSE, scopeid |-> <<"2">>],
     [address |-> Loopback6, family |-> "IPv6", internal |-> TRUE, scopeid |-> <<"0">>]}

InterfaceLists == SeqsUpTo(InterfaceEntries, MaxIfaces)

\* osHostname(): empty, or a name
Hostnames == {<<>>, HostA}

\* What a reverse lookup resolves with
DnsAnswers == {<<>>, <<HostA>>, <<HostB, HostA>>}

\* The callback (info) => { ... } given to serve(): it runs to completion,
\* so no .then callback of a lookup runs before it returns
ServeCallback ==
    /\ pc = "serving"
    /\ \E ifs \in InterfaceLists, h \in Hostnames :
         /\ interfaces' = ifs
         \* the loopback branches do not call osHostname()
         /\ hostnameStr' = IF bind \in {Loopback4, Loopback6} THEN <<>> ELSE h
         /\ CASE bind \in {BindAny4, BindAny6} -> ReportAllInterfaces(ifs, h)
              [] bind \in {Loopback4, Loopback6} -> ReportLoopback(ifs)
              [] OTHER -> ReportSpecific(ifs, h)
    /\ UNCHANGED <<envVars, osVars, mode, cfgVars, probeVars, scanVars, httpVars, svcVars>>

\* The hostnames of an answer that the for loop prints: those not yet in
\* processedUrls, each once
RECURSIVE NewHosts(_, _)
NewHosts(hostnames, processed) ==
    IF hostnames = <<>> THEN <<>>
    ELSE IF Head(hostnames) \in processed THEN NewHosts(Tail(hostnames), processed)
    ELSE <<Head(hostnames)>>
         \o NewHosts(Tail(hostnames), processed \cup {Head(hostnames)})

\* .then((hostnames) => { ... }) of one lookup
ReverseResolved ==
    /\ pc = "reported"
    /\ \E k \in 1..Len(lookups), hostnames \in DnsAnswers :
         /\ lookups[k].state = "pending"
         /\ lookups' = [lookups EXCEPT ![k].state = "resolved",
                                       ![k].hostnames = hostnames]
         /\ urls' = urls \o [i \in 1..Len(NewHosts(hostnames, processedUrls)) |->
                               Line(NewHosts(hostnames, processedUrls)[i], "dns", "")]
         /\ processedUrls' = processedUrls \cup Range(hostnames)
    /\ UNCHANGED <<envVars, osVars, pc, mode, exitCode, cfgVars, out, probeVars,
                   scanVars, httpVars, svcVars, interfaces, hostnameStr>>

\* A plausible slip: the rejection of a lookup is not caught, and the
\* unhandled rejection ends the process
ReverseFailedUncaught ==
    /\ pc = "reported"
    /\ \E k \in 1..Len(lookups) :
         /\ lookups[k].state = "pending"
         /\ lookups' = [lookups EXCEPT ![k].state = "failed"]
    /\ Exit(1)
    /\ UNCHANGED <<envVars, osVars, mode, cfgVars, out, probeVars, scanVars,
                   httpVars, svcVars, interfaces, hostnameStr, urls, processedUrls>>

\* .catch(() => { }) of one lookup
ReverseFailed ==
    /\ pc = "reported"
    /\ \E k \in 1..Len(lookups) :
         /\ lookups[k].state = "pending"
         /\ lookups' = [lookups EXCEPT ![k].state = "failed"]
    /\ UNCHANGED <<envVars, osVars, pc, mode, exitCode, cfgVars, out, probeVars,
                   scanVars, httpVars, svcVars, interfaces, hostnameStr, urls,
                   processedUrls>>

\* Plain runs with each kind of bind address
ReportArgs ==
    {<<>>, <<TokIpv6>>} \cup
    {<<BindPrefix \o t>> : t \in {Loopback4, Loopback6, LanAddress4, Mapped6}}

InitReport ==
    /\ args \in ReportArgs
    /\ InitRun
    /\ platform = "linux"

NextReport ==
    \/ ParseArgs
    \/ IsPortInUseListen
    \/ IsPortInUseClose
    \/ ThenProbe
    \/ FindAvailablePortStep
    \/ StartServer
    \/ ServeCallback
    \/ ReverseResolved
    \/ ReverseFailed

SpecReport == InitReport /\ [][NextReport]_vars

----------------------------------------------------------------------------
(* Runs of parseArgs alone, over a wider set of port and bind texts *)

PortChars == {"0", "7", "a", "-", "=", " "}

BoundaryPortTexts ==
    { <<"1">>, <<"6", "5", "5", "3", "5">>, <<"6", "5", "5", "3", "6">>,
      <<"6", "4", "0", "0", "1">>, <<"+", "7">> }

PortTexts == SeqsUpTo(PortChars, MaxPortLen) \cup BoundaryPortTexts

BindTexts ==
    { <<>>, <<":", ":", "1">>, <<"1", "2", "7", ".", "0", ".", "0", ".", "1">>,
      <<"a", "=", "b">> }

Perms(S) ==
    {f \in [1..Cardinality(S) -> S] : \A i, j \in 1..Cardinality(S) : f[i] = f[j] => i = j}

\* Every order of every choice among install, --ipv6, one --port= token and
\* one --bind= token
ArgInputs ==
    UNION { UNION { UNION { Perms(S) :
                S \in SUBSET {TokInstall, TokIpv6, PortPrefix \o v, BindPrefix \o b} } :
            v \in PortTexts } :
        b \in BindTexts }

\* parseArgs does not read process.platform
InitArgs ==
    /\ args \in ArgInputs
    /\ platform = "linux"
    /\ InitRun

SpecArgs == InitArgs /\ [][ParseArgs]_vars

----------------------------------------------------------------------------
(* Properties *)

PortErrorMsg == "Error: Port must be a valid number between 1 and 65535."

Printed(msg) == \E i \in 1..Len(out) : out[i] = msg

\* The text that follows the prefix of the first token with that prefix
ValueAfter(prefix) ==
    LET tok == findPrefix(args, prefix)[1]
    IN  SubSeq(tok, Len(prefix) + 1, Len(tok))

\* v is the decimal numeral of a positive integer: digits only, no leading 0
IsNumeral(v) ==
    /\ v # <<>>
    /\ \A i \in 1..Len(v) : IsDigit(v[i])
    /\ v[1] # "0"

Parsed == pc # "parse" /\ mode \in {"run", "install"}

NothingStarted ==
    /\ probePort = 0
    /\ probeLog = <<>>
    /\ srv = "none"
    /\ started = 0
    /\ listener = "none"

\* C1: for a plain run or install, --port=V yields port N when V is the
\* decimal numeral of an N in 1..65535, and a validation error (exit 1, no
\* port) for every other V.
C1_PortParsing ==
    (Parsed /\ findPrefix(args, PortPrefix) # <<>>) =>
        LET v == ValueAfter(PortPrefix)
        IN  IF IsNumeral(v) /\ DecVal(v) >= 1 /\ DecVal(v) <= 65535
            THEN port = DecVal(v) /\ ~Printed(PortErrorMsg)
            ELSE Printed(PortErrorMsg) /\ pc = "exited" /\ exitCode = 1

\* The part of C1 the code keeps: every numeral of 1..65535 yields that
\* port, and a text with no leading number, or a number outside 1..65535,
\* is refused.
C1_NumeralsAccepted ==
    (Parsed /\ findPrefix(args, PortPrefix) # <<>>) =>
        LET v == ValueAfter(PortPrefix)
        IN  /\ (IsNumeral(v) /\ DecVal(v) >= 1 /\ DecVal(v) <= 65535)
                 => (port = DecVal(v) /\ ~Printed(PortErrorMsg))
            /\ (v = <<>> \/ (IsNumeral(v) /\ DecVal(v) > 65535) \/ v[1] \in {"a", "="}
                    \/ v = <<"0">> \/ (v[1] = "-" /\ Len(v) > 1 /\ IsDigit(v[2])))
                 => (Printed(PortErrorMsg) /\ pc = "exited" /\ exitCode = 1)

\* C2: without --port the port is 64001; without --bind the bind is 0.0.0.0,
\* or :: when --ipv6 is given; with --bind=ADDR the bind is exactly ADDR,
\* whatever the order of the arguments.
C2_DefaultsAndBind ==
    (Parsed /\ ~Printed(PortErrorMsg)) =>
        /\ (findPrefix(args, PortPrefix) = <<>>) => port = 64001
        /\ bind = IF \E i \in 1..Len(args) : startsWith(args[i], BindPrefix)
                  THEN ValueAfter(BindPrefix)
                  ELSE IF \E i \in 1..Len(args) : args[i] = TokIpv6
                       THEN <<":", ":">>
                       ELSE <<"0", ".", "0", ".", "0", ".", "0">>

\* The part of C2 the code keeps: the defaults, and --bind=ADDR winning over
\* --ipv6 in every order for an ADDR that holds no "=".
C2_BindWithoutEq ==
    (Parsed /\ ~Printed(PortErrorMsg)) =>
        /\ (findPrefix(args, PortPrefix) = <<>>) => port = 64001
        /\ IF \E i \in 1..Len(args) : startsWith(args[i], BindPrefix)
           THEN (\A k \in 1..Len(ValueAfter(BindPrefix)) : ValueAfter(BindPrefix)[k] # "=")
                    => bind = ValueAfter(BindPrefix)
           ELSE bind = IF \E i \in 1..Len(args) : args[i] = TokIpv6
                       THEN <<":", ":">>
                       ELSE <<"0", ".", "0", ".", "0", ".", "0">>

Has(tok) == \E i \in 1..Len(args) : args[i] = tok

InstallCommands == Range(NssmInstallCmds) \cup Range(ScInstallCmds) \cup {"net session"}

UninstallCommands ==
    {"net session", "sc query", "where nssm", "nssm stop", "sc stop",
     "nssm remove", "sc delete"}

\* C3: the branch taken is the first applicable of --help/-h, --version/-v,
\* uninstall, install, plain run, wherever the tokens stand; help and
\* version print and exit 0 with nothing else done, uninstall runs no
\* install step, and nothing but a plain run probes or starts the server.
C3_CommandPriority ==
    (pc # "parse") =>
        /\ mode = IF Has(TokHelp) \/ Has(TokH) THEN "help"
                  ELSE IF Has(TokVersion) \/ Has(TokV) THEN "version"
                  ELSE IF Has(TokUninstall) THEN "uninstall"
                  ELSE IF Has(TokInstall) THEN "install"
                  ELSE "run"
        /\ mode \in {"help", "version"} =>
              /\ pc = "exited" /\ exitCode = 0
              /\ out = <<"CAME+test version", IF mode = "help" THEN "usage" ELSE "name vVersion">>
              /\ cmds = <<>> /\ NothingStarted
        /\ mode = "uninstall" =>
              /\ Range(cmds) \subseteq UninstallCommands
              /\ ~Printed(PortErrorMsg) /\ NothingStarted
        /\ mode = "install" =>
              /\ Range(cmds) \subseteq InstallCommands
              /\ NothingStarted
        /\ mode = "run" =>
              Range(cmds) \subseteq {"netstat", "tasklist", "lsof"}

\* C3 witness: --help standing after install: the usage text is printed and
\* the run ends in the help branch
C3_Witness ==
    /\ Len(args) = 2 /\ args[1] = TokInstall /\ args[2] = TokHelp
    /\ pc = "exited" /\ mode = "help"

\* C4: when port validation fails (plain run or install) the process exits
\* with code 1, and no probe, no listener and no install step ever happens;
\* validation fails exactly when the parsed port is NaN or outside 1..65535.
C4_ValidationFailure ==
    /\ Printed(PortErrorMsg) <=> (Parsed /\ PortInvalid(ParsedPort(args)))
    /\ Printed(PortErrorMsg) =>
          /\ pc = "exited" /\ exitCode = 1
          /\ NothingStarted
          /\ cmds = <<>>

\* C4 witness: install with --port=0 ended on the validation error
C4_Witness ==
    /\ mode = "install"
    /\ Printed(PortErrorMsg)
    /\ pc = "exited"


\* The pre-bind probe isPortInUse(port, bind) resolved true
ProbeSaidInUse == Len(probeLog) >= 1 /\ probeLog[1].res = "true"

\* The ports findAvailablePort probed, with what each probe resolved
ScanLog == SubSeq(probeLog, 2, Len(probeLog))

ProbedAs(p, res) == \E i \in 1..Len(ScanLog) : ScanLog[i] = [port |-> p, res |-> res]

\* C5: if the pre-bind probe reports the port in use, the process exits with
\* code 1 and startServer is never invoked, for every valid port and every
\* occupancy of the ports above it.
C5_InUseNeverStarts ==
    ProbeSaidInUse =>
        /\ started = 0
        /\ pc = "exited" => exitCode = 1

\* The part of C5 the code keeps: it holds while every port the search
\* probes is at most 65535.
C5_InUseBelowTop ==
    (ProbeSaidInUse /\ \A i \in 1..Len(probeLog) : probeLog[i].res # "rejected"
        /\ ~ListenThrows(probePort)) =>
        /\ started = 0
        /\ pc = "exited" => exitCode = 1

C8_IsPortInUse ==
    /\ probeRes = "true" <=> srv = "EADDRINUSE"
    /\ probeRes = "false" <=> srv \in {"closed", "EACCES", "EADDRNOTAVAIL"}
    /\ probeRes # "pending" => srv # "listening"
    /\ \A i \in 1..Len(probeLog) :
          probeLog[i].res = "rejected" <=> probeLog[i].port > 65535

\* C8 witness: a probe bound its port, closed the listener and resolved false
C8_Witness ==
    /\ srv = "closed"
    /\ probeRes = "false"
    /\ probeLog[Len(probeLog)] = [port |-> probePort, res |-> "false"]

\* Failures the code is documented to tolerate: the discovery of nssm, and
\* stopping a service that is already stopped
ToleratedFailures == {"where nssm", "nssm stop", "sc stop"}

DetectedFailure ==
    \/ \E i \in 1..Len(failures) : failures[i] \notin ToleratedFailures
    \/ Printed(PortErrorMsg)

\* C9: a run that selects install or uninstall never probes the port and
\* never creates the listener, and it exits 0 when the service action
\* succeeded and 1 when a failure of it was detected (here on Windows; the
\* other platforms are C10's).
C9_ServiceExitCode ==
    (mode \in {"install", "uninstall"} /\ platform = "win32") =>
        /\ NothingStarted
        /\ pc = "exited" => exitCode = IF DetectedFailure THEN 1 ELSE 0

\* The part of C9 the code keeps: install and uninstall never probe and
\* never listen, on any platform, and end with exit code 0 or 1.
C9_Terminal ==
    (mode \in {"install", "uninstall"}) =>
        /\ NothingStarted
        /\ pc = "exited" => exitCode \in {0, 1}
        /\ pc \in {"exited", "installService", "uninstallService", "net session",
                   "un: net session", "un: sc query", "un: where nssm", "un: stop",
                   "un: remove"} \cup Range(NssmInstallCmds) \cup Range(ScInstallCmds)

\* C10: on every platform other than Windows, install and uninstall report
\* the action as unsupported, run no command, write no file, and exit 1.
C10_OtherPlatforms ==
    (mode \in {"install", "uninstall"} /\ platform # "win32" /\ pc = "exited"
        /\ ~Printed(PortErrorMsg)) =>
        /\ cmds = <<>>
        /\ Len(out) = 2
        /\ exitCode = 1

\* The part of C10 the code keeps: no command, no file, one message; but
\* exit code 1 only off Linux and macOS.
C10_NoAction ==
    (mode \in {"install", "uninstall"} /\ platform # "win32" /\ pc = "exited"
        /\ ~Printed(PortErrorMsg)) =>
        /\ cmds = <<>>
        /\ Len(out) = 2
        /\ exitCode = IF platform \in {"linux", "darwin"} THEN 0 ELSE 1

----------------------------------------------------------------------------
(* The install step chain, the late bind error, the range of the search *)

\* C11: on Windows, if any install step fails (the privilege check, an nssm
\* install/set/start command, a wrapper-file write, an sc command), no later
\* install step of either backend runs and the process exits with code 1.
C11_StepChain ==
    \A i \in 1..Len(cmds) :
        (mode = "install" /\ cmds[i] \in Range(failures) /\ cmds[i] # "where nssm") =>
            /\ i = Len(cmds)
            /\ pc = "exited"
            /\ exitCode = 1

\* C17: after startServer is called, either the listener is bound, or the
\* bind failed with EADDRINUSE and the handler reported it and exited with
\* code 1, or the bind failed with another error, which the handler threw
\* again without a report; the process is never left running unbound.
C17_LateBindError ==
    (started > 0 /\ pc # "startServer") =>
        CASE serveErr = "none" ->
               listener = "listening"
          [] serveErr = "EADDRINUSE" ->
               /\ listener = "none"
               /\ pc = "exited" /\ exitCode = 1
               /\ Printed("Error: Port is already in use (bind)")
          [] OTHER ->
               /\ listener = "none"
               /\ pc = "exited" /\ exitCode = HandlerRethrowExit
               /\ ~Printed("Error: Port is already in use (bind)")
               /\ ~Printed("Server error")

\* C17 witness: the probe found the port free, the bind then failed with
\* EADDRINUSE, and the process exited with code 1
C17_Witness ==
    /\ Len(probeLog) = 1 /\ probeLog[1].res = "false"
    /\ started = 1
    /\ serveErr = "EADDRINUSE"
    /\ pc = "exited" /\ exitCode = 1

\* C19: for every valid configured port, every port findAvailablePort probes
\* and the port it returns lie in 1..65535, and no probe of the search fails.
C19_PortRange ==
    ProbeSaidInUse =>
        /\ \A i \in 1..Len(ScanLog) :
             /\ ScanLog[i].port \in 1..MaxPortNumber
             /\ ScanLog[i].res # "rejected"
        /\ probePort \in 1..MaxPortNumber
        /\ suggested # 0 => suggested \in 1..MaxPortNumber

----------------------------------------------------------------------------
(* uninstall with no service registered *)

StopRemoveCommands == {"nssm stop", "sc stop", "nssm remove", "sc delete"}

NotInstalledExit ==
    /\ exitCode = 1
    /\ Printed("Error: Service is not installed.")
    /\ \A i \in 1..Len(cmds) : cmds[i] \notin StopRemoveCommands

\* C12: an uninstall run that ends while no service is registered exits with
\* code 1 and a message that the service is not installed, and has issued no
\* stop or remove command.
C12_NotInstalled ==
    [][(mode' = "uninstall" /\ service = "absent" /\ pc' = "exited")
          => NotInstalledExit']_vars

\* The part of C12 the code keeps: on Windows such a run exits with code 1
\* and no stop or remove command; the message is the not-installed one when
\* the privilege check passed, and the privileges one otherwise.
C12_WindowsNotInstalled ==
    [][(mode' = "uninstall" /\ platform = "win32" /\ service = "absent"
          /\ pc' = "exited")
          => /\ exitCode' = 1
             /\ \A i \in 1..Len(cmds') : cmds'[i] \notin StopRemoveCommands
             /\ IF "net session" \in Range(failures')
                THEN Printed("Error: Administrator privileges are required")'
                ELSE Printed("Error: Service is not installed.")']_vars

----------------------------------------------------------------------------
(* The backend of uninstall, the flags of the installed service *)

\* The stop and remove commands of the manager that holds the registration
BackendCommands(s) ==
    IF s = "nssm" THEN {"nssm stop", "nssm remove"}
    ELSE IF s = "sc" THEN {"sc stop", "sc delete"}
    ELSE {}

\* C13: in every sequence of install and uninstall runs, each stop or remove
\* command that uninstall issues is a command of the manager that registered
\* the service, whatever `where nssm` answers in the uninstall run.
C13_SameBackend ==
    [][\A c \in StopRemoveCommands :
          (mode = "uninstall" /\ cmds' = Append(cmds, c))
              => c \in BackendCommands(service)]_vars

\* The command line of the service, split into arguments at the spaces
RECURSIVE Words(_)
Words(s) ==
    IF s = <<>> THEN <<>>
    ELSE IF s[1] = " " THEN Words(Tail(s))
    ELSE LET n == IF \E i \in 1..Len(s) : s[i] = " "
                  THEN (CHOOSE i \in 1..Len(s) :
                            s[i] = " " /\ \A j \in 1..(i - 1) : s[j] # " ") - 1
                  ELSE Len(s)
         IN  <<SubSeq(s, 1, n)>> \o Words(SubSeq(s, n + 1, Len(s)))

\* C14: for every (port, bind, ipv6) that install accepts, a plain run given
\* the flags that installWindowsService reconstructs parses the same port
\* and the same bind address.
C14_RoundTrip ==
    (mode = "install" /\ "where nssm" \in Range(cmds)) =>
        /\ ParsedPort(Words(serviceParams)) = [nan |-> FALSE, val |-> port]
        /\ ParsedBind(Words(serviceParams)) = bind

----------------------------------------------------------------------------
(* The startup report *)

\* C15: within a run, whatever the interface entries, the reverse-DNS
\* answers, the machine hostname and the order in which the lookups complete,
\* no host:port URL is printed more than once.
C15_NoDuplicateUrl ==
    \A i, j \in 1..Len(urls) : i # j => urls[i].host # urls[j].host

\* The part of C15 the code keeps: a URL derived from a reverse lookup is
\* never the URL of another line
C15_NoDuplicateDnsUrl ==
    \A i, j \in 1..Len(urls) :
        (i # j /\ urls[i].via = "dns") => urls[i].host # urls[j].host

\* The callback has returned with the process alive
Reported == pc = "reported"

\* C16: every line of the synchronous banner precedes every line derived
\* from a reverse lookup; the banner is complete, the machine hostname
\* included, when the callback returns, whatever lookups are still pending;
\* a failed lookup prints nothing and does not end the process, and every
\* hostname of a resolved lookup is printed.
C16_FireAndForget ==
    /\ \A i, j \in 1..Len(urls) :
         (urls[i].via = "dns" /\ urls[j].via = "sync") => j < i
    /\ Reported =>
         /\ urls # <<>> /\ urls[1].via = "sync"
         /\ hostnameStr # <<>> =>
              \E i \in 1..Len(urls) :
                  urls[i].host = hostnameStr /\ urls[i].via = "sync"
    /\ (\E k \in 1..Len(lookups) : lookups[k].state = "failed") =>
         Reported /\ exitCode = NotExited
    /\ \A i \in 1..Len(urls) :
         urls[i].via = "dns" =>
             \E k \in 1..Len(lookups) :
                 /\ lookups[k].state = "resolved"
                 /\ urls[i].host \in Range(lookups[k].hostnames)
    /\ \A k \in 1..Len(lookups) :
         lookups[k].state = "resolved" =>
             \A h \in Range(lookups[k].hostnames) :
                 \E i \in 1..Len(urls) : urls[i].host = h

\* C16 witness: one lookup failed, another resolved later and its hostname
\* was printed behind the banner, with the process alive
C16_Witness ==
    /\ Reported
    /\ \E k, l \in 1..Len(lookups) :
         /\ lookups[k].state = "failed"
         /\ lookups[l].state = "resolved"
         /\ lookups[l].hostnames # <<>>
    /\ urls[Len(urls)].via = "dns"

\* A host that is an IPv6 address, bracketed or not
IsIPv6Host(h) == \E i \in 1..Len(h) : h[i] = ":"

\* C18: a URL whose host is an IPv6 address is printed only if
\* shouldShowIPv6(bind, ipv6Enabled) is true; and when the bind address is
\* ::, ::1 or another IPv6 literal while IPv6 is disabled, the process exits
\* with code 1 before any URL is printed.
C18_IPv6Visibility ==
    (listener = "listening" /\ pc # "serving") =>
        /\ \A i \in 1..Len(urls) :
             IsIPv6Host(urls[i].host) =>
                 shouldShowIPv6(bind, isIPv6Enabled(interfaces))
        /\ (IsIPv6Host(bind) /\ ~isIPv6Enabled(interfaces)) =>
             /\ pc = "exited" /\ exitCode = 1
             /\ urls = <<>>

\* The part of C18 the code keeps: with the bind address 0.0.0.0, ::, ::1 or
\* an IPv4 literal, IPv6 URLs are printed only if shouldShowIPv6 holds, and
\* :: and ::1 with IPv6 disabled exit with code 1 before any URL is printed
C18_ExceptOtherLiterals ==
    (listener = "listening" /\ pc # "serving"
        /\ (bind \in {BindAny4, BindAny6, Loopback6} \/ isIPv4Address(bind))) =>
        /\ \A i \in 1..Len(urls) :
             IsIPv6Host(urls[i].host) =>
                 shouldShowIPv6(bind, isIPv6Enabled(interfaces))
        /\ (IsIPv6Host(bind) /\ ~isIPv6Enabled(interfaces)) =>
             /\ pc = "exited" /\ exitCode = 1
             /\ urls = <<>>

----------------------------------------------------------------------------
(* What the code keeps of the install step chain and of the flag round trip *)

\* The steps whose failure ends the install run at once with code 1: the
\* privilege check, mkdir, the file writes and the sc commands before start
AbortingSteps ==
    {"net session"} \cup (Range(ScInstallCmds) \ {"sc start"})

C11_AbortingSteps ==
    \A i \in 1..Len(cmds) :
        (mode = "install" /\ cmds[i] \in Range(failures) /\ cmds[i] \in AbortingSteps) =>
            /\ i = Len(cmds)
            /\ pc = "exited"
            /\ exitCode = 1

\* The flags round-trip unless 0.0.0.0 was given together with --ipv6
C14_ExceptAny4WithIpv6 ==
    (mode = "install" /\ "where nssm" \in Range(cmds) /\ ~(bind = BindAny4 /\ ipv6)) =>
        /\ ParsedPort(Words(serviceParams)) = [nan |-> FALSE, val |-> port]
        /\ ParsedBind(Words(serviceParams)) = bind

====
